---- MODULE Spec2Model ----
(***************************************************************************)
(* Model of Devoir/script05.py: CompositionGraph and DeBruijn.             *)
(*                                                                         *)
(* A Python str is a sequence of one-character symbols; a Python dict is a *)
(* sequence of <<key, value>> items in insertion order (the order in which *)
(* the dict enumerates them); a Python list is a sequence.                 *)
(***************************************************************************)
EXTENDS Integers, Sequences, FiniteSets, TLC

VARIABLES Patterns, edges, adj_list, sorted_adj_list, i, pc

vars == <<Patterns, edges, adj_list, sorted_adj_list, i, pc>>

(* ---------------------------- bounds ----------------------------------- *)
MaxK == 2
MaxN == 3

(* ---------------------------- strings ---------------------------------- *)
\* code points, the order Python compares characters by
Ord == [c \in {"A", "C", "G", "T"} |->
          CASE c = "A" -> 65 [] c = "C" -> 67 [] c = "G" -> 71 [] c = "T" -> 84]

\* the symbols the bounded inputs are written in
Alphabet == {"A", "C"}

StringsOfLen(n) == [1..n -> Alphabet]

Kmers == UNION {StringsOfLen(n) : n \in 0..MaxK}

Inputs == UNION {[1..n -> Kmers] : n \in 0..MaxN}

listKmer == << <<"G","A","G","G">>, <<"C","A","G","G">>, <<"G","G","G","G">>,
               <<"G","G","G","A">>, <<"C","A","G","G">>, <<"A","G","G","G">>,
               <<"G","G","A","G">> >>

\* variant: Pattern[:-2]
PrefixDropsTwo(Pattern) == SubSeq(Pattern, 1, Len(Pattern) - 2)

\* Pattern[:-1]
Prefix(Pattern) == SubSeq(Pattern, 1, Len(Pattern) - 1)

\* variant: Pattern[:]
SuffixKeepsAll(Pattern) == Pattern

\* variant: Pattern[-1:]
SuffixLastChar(Pattern) ==
  IF Pattern = <<>> THEN <<>> ELSE <<Pattern[Len(Pattern)]>>

\* Pattern[1:]
Suffix(Pattern) == SubSeq(Pattern, 2, Len(Pattern))

\* variant: compares the common part only, ignoring the lengths
RECURSIVE StrLessNoLength(_, _)
StrLessNoLength(a, b) ==
  IF a = <<>> \/ b = <<>> THEN FALSE
  ELSE IF a[1] # b[1] THEN Ord[a[1]] < Ord[b[1]]
  ELSE StrLessNoLength(Tail(a), Tail(b))

\* a < b on Python str: first differing code point, a proper prefix is less
RECURSIVE StrLess(_, _)
StrLess(a, b) ==
  IF b = <<>> THEN FALSE
  ELSE IF a = <<>> THEN TRUE
  ELSE IF a[1] # b[1] THEN Ord[a[1]] < Ord[b[1]]
  ELSE StrLess(Tail(a), Tail(b))

\* a < b on Python lists of str
RECURSIVE ListLess(_, _)
ListLess(a, b) ==
  IF b = <<>> THEN FALSE
  ELSE IF a = <<>> THEN TRUE
  ELSE IF a[1] # b[1] THEN StrLess(a[1], b[1])
  ELSE ListLess(Tail(a), Tail(b))

\* a < b on (key, value) tuples as dict.items() yields them
ItemLess(a, b) ==
  IF a[1] # b[1] THEN StrLess(a[1], b[1]) ELSE ListLess(a[2], b[2])

Front(s) == SubSeq(s, 1, Len(s) - 1)

Last(s) == s[Len(s)]

(* ---------------------------- sorted() --------------------------------- *)
\* sorted() is a stable ascending sort: element j goes after every element
\* that is less than it and after every earlier element it is not less than

\* variant: the value lists are left in append order
SortedStrsNoSort(v) == v

\* sorted(v) for a list of str
SortedStrs(v) ==
  LET Before(m, j) == StrLess(v[m], v[j]) \/ (m < j /\ ~StrLess(v[j], v[m]))
      Rank(j) == Cardinality({m \in DOMAIN v : Before(m, j)}) + 1
  IN  [p \in DOMAIN v |-> v[CHOOSE j \in DOMAIN v : Rank(j) = p]]

\* variant: the items are left in insertion order
SortedItemsNoSort(items) == items

\* sorted(adj_list.items())
SortedItems(items) ==
  LET Before(m, j) ==
        ItemLess(items[m], items[j]) \/ (m < j /\ ~ItemLess(items[j], items[m]))
      Rank(j) == Cardinality({m \in DOMAIN items : Before(m, j)}) + 1
  IN  [p \in DOMAIN items |-> items[CHOOSE j \in DOMAIN items : Rank(j) = p]]

(* ---------------------------- dict ------------------------------------- *)
\* prefix in adj_list
HasKey(d, k) == \E j \in DOMAIN d : d[j][1] = k

\* edges = []
EmptyEdges == <<>>

\* variant: the dict starts with an entry for the empty label
SeededDict == << << <<>>, <<>> >> >>

\* adj_list = {}
EmptyDict == <<>>

\* variant: adj_list[prefix] = [suffix]
AppendSuffixReplaces(d, prefix, suffix) ==
  [j \in DOMAIN d |->
     IF d[j][1] = prefix THEN <<d[j][1], <<suffix>>>> ELSE d[j]]

\* variant: a suffix already in the list is not appended again
AppendSuffixDedup(d, prefix, suffix) ==
  [j \in DOMAIN d |->
     IF d[j][1] = prefix /\ \A x \in DOMAIN d[j][2] : d[j][2][x] # suffix
       THEN <<d[j][1], Append(d[j][2], suffix)>> ELSE d[j]]

\* variant: adj_list[prefix].insert(0, suffix)
AppendSuffixAtFront(d, prefix, suffix) ==
  [j \in DOMAIN d |->
     IF d[j][1] = prefix THEN <<d[j][1], <<suffix>> \o d[j][2]>> ELSE d[j]]

\* adj_list[prefix].append(suffix)
AppendSuffix(d, prefix, suffix) ==
  [j \in DOMAIN d |->
     IF d[j][1] = prefix THEN <<d[j][1], Append(d[j][2], suffix)>> ELSE d[j]]

\* adj_list[prefix] = [suffix], prefix not yet a key
NewKey(d, prefix, suffix) == Append(d, <<prefix, <<suffix>>>>)

\* {k: sorted(v) for k, v in sorted(adj_list.items())}
SortAdj(d) ==
  LET items == SortedItems(d)
  IN  [j \in DOMAIN items |-> <<items[j][1], SortedStrs(items[j][2])>>]

(* -------------------- the functions as operators ----------------------- *)
\* edges.append((prefix, suffix))
EdgeOf(kmer) == <<Prefix(kmer), Suffix(kmer)>>

RECURSIVE CompositionGraph(_)
CompositionGraph(P) ==
  IF P = <<>> THEN EmptyEdges
  ELSE Append(CompositionGraph(Front(P)), EdgeOf(Last(P)))

\* body of the loop over edges
AddEdge(d, edge) ==
  IF HasKey(d, edge[1]) THEN AppendSuffix(d, edge[1], edge[2])
  ELSE NewKey(d, edge[1], edge[2])

RECURSIVE Group(_)
Group(es) ==
  IF es = <<>> THEN EmptyDict ELSE AddEdge(Group(Front(es)), Last(es))

DeBruijn(P) == SortAdj(Group(CompositionGraph(P)))

(* ---------------------------- state machine ---------------------------- *)
\* DeBruijn(Patterns) has been called and CompositionGraph entered
Init ==
  /\ Patterns \in Inputs \cup {listKmer}
  /\ edges = EmptyEdges
  /\ adj_list = <<>>
  /\ sorted_adj_list = <<>>
  /\ i = 0
  /\ pc = "compose"

\* one iteration of `for kmer in Patterns`
CompositionGraphStep ==
  /\ pc = "compose"
  /\ Len(edges) < Len(Patterns)
  /\ edges' = Append(edges, EdgeOf(Patterns[Len(edges) + 1]))
  /\ UNCHANGED <<Patterns, adj_list, sorted_adj_list, i, pc>>

\* return edges; adj_list = {}
CompositionGraphReturn ==
  /\ pc = "compose"
  /\ Len(edges) >= Len(Patterns)
  /\ adj_list' = EmptyDict
  /\ i' = 0
  /\ pc' = "group"
  /\ UNCHANGED <<Patterns, edges, sorted_adj_list>>

\* one iteration of `for edge in edges`, prefix already a key
GroupAppend ==
  /\ pc = "group"
  /\ i < Len(edges)
  /\ LET prefix == edges[i + 1][1]
         suffix == edges[i + 1][2]
     IN  /\ HasKey(adj_list, prefix)
         /\ adj_list' = AppendSuffix(adj_list, prefix, suffix)
  /\ i' = i + 1
  /\ UNCHANGED <<Patterns, edges, sorted_adj_list, pc>>

\* one iteration of `for edge in edges`, prefix seen for the first time
GroupCreate ==
  /\ pc = "group"
  /\ i < Len(edges)
  /\ LET prefix == edges[i + 1][1]
         suffix == edges[i + 1][2]
     IN  /\ ~HasKey(adj_list, prefix)
         /\ adj_list' = NewKey(adj_list, prefix, suffix)
  /\ i' = i + 1
  /\ UNCHANGED <<Patterns, edges, sorted_adj_list, pc>>

\* the loop is exhausted: build sorted_adj_list and return it
SortAndReturn ==
  /\ pc = "group"
  /\ i >= Len(edges)
  /\ sorted_adj_list' = SortAdj(adj_list)
  /\ pc' = "done"
  /\ UNCHANGED <<Patterns, edges, adj_list, i>>

Next ==
  \/ CompositionGraphStep
  \/ CompositionGraphReturn
  \/ GroupAppend
  \/ GroupCreate
  \/ SortAndReturn

Spec == Init /\ [][Next]_vars

(* ------------------- vocabulary of the properties ---------------------- *)
\* the k-mer minus its last symbol
MinusLast(k) == [j \in 1..(Len(k) - 1) |-> k[j]]

\* the k-mer minus its first symbol
MinusFirst(k) == [j \in 1..(Len(k) - 1) |-> k[j + 1]]

\* lexicographic order: a is a proper prefix of b, or a is smaller at the
\* first position where they differ
LexLess(a, b) ==
  \E n \in 0..Len(a) :
    /\ n <= Len(b)
    /\ \A j \in 1..n : a[j] = b[j]
    /\ \/ n = Len(a) /\ n < Len(b)
       \/ n < Len(a) /\ n < Len(b) /\ Ord[a[n + 1]] < Ord[b[n + 1]]

KeysOf(d) == {d[j][1] : j \in DOMAIN d}

\* the value list of key k, empty when k is not a key
ListAt(d, k) ==
  IF \E j \in DOMAIN d : d[j][1] = k
    THEN d[CHOOSE j \in DOMAIN d : d[j][1] = k][2]
    ELSE <<>>

Count(s, x) == Cardinality({j \in DOMAIN s : s[j] = x})

SumLens(d) == Cardinality(UNION {{<<j, x>> : x \in DOMAIN d[j][2]} : j \in DOMAIN d})

KeysIncreasing(d) == \A a, b \in DOMAIN d : a < b => LexLess(d[a][1], d[b][1])

NonDecreasing(v) == \A a, b \in DOMAIN v : a < b => ~LexLess(v[b], v[a])

PrefixesOf(P) == {MinusLast(P[j]) : j \in DOMAIN P}

\* the call has not raised and has not returned: a next statement executes
Runs == pc # "done" => ENABLED Next

MixedLengths == \E a, b \in DOMAIN Patterns : Len(Patterns[a]) # Len(Patterns[b])

AllDegenerate == \A j \in DOMAIN Patterns : Len(Patterns[j]) <= 1

\* the mapping the scenario states for listKmer
scenarioListKmer ==
  << << <<"A","G","G">>, << <<"G","G","G">> >> >>,
     << <<"C","A","G">>, << <<"A","G","G">>, <<"A","G","G">> >> >>,
     << <<"G","A","G">>, << <<"A","G","G">> >> >>,
     << <<"G","G","A">>, << <<"G","G","G">> >> >>,
     << <<"G","G","G">>, << <<"G","A","G">>, <<"G","G","A">> >> >> >>

\* the scenario with the lists of GGA and GGG amended
amendedListKmer ==
  << << <<"A","G","G">>, << <<"G","G","G">> >> >>,
     << <<"C","A","G">>, << <<"A","G","G">>, <<"A","G","G">> >> >>,
     << <<"G","A","G">>, << <<"A","G","G">> >> >>,
     << <<"G","G","A">>, << <<"G","A","G">> >> >>,
     << <<"G","G","G">>, << <<"G","G","A">>, <<"G","G","G">> >> >> >>

(* ------------------------------ C1 ------------------------------------- *)
\* the returned mapping has exactly the distinct prefixes of Patterns as
\* keys, one entry each; every value list is non-empty and is the ascending
\* multiset of the suffixes of the k-mers with that prefix
GroupedSuffixes ==
  /\ KeysOf(sorted_adj_list) = PrefixesOf(Patterns)
  /\ Len(sorted_adj_list) = Cardinality(PrefixesOf(Patterns))
  /\ \A e \in DOMAIN sorted_adj_list :
       LET k == sorted_adj_list[e][1]
           v == sorted_adj_list[e][2]
       IN  /\ v # <<>>
           /\ NonDecreasing(v)
           /\ \A s \in {v[x] : x \in DOMAIN v}
                       \cup {MinusFirst(Patterns[j]) : j \in DOMAIN Patterns} :
                Count(v, s) =
                  Cardinality({j \in DOMAIN Patterns :
                                 MinusLast(Patterns[j]) = k /\ MinusFirst(Patterns[j]) = s})

\* C1, as stated: the mapping DeBruijn(Patterns) returns is the grouping of
\* the suffixes by prefix, and for listKmer it is AGG -> [GGG],
\* CAG -> [AGG, AGG], GAG -> [AGG], GGA -> [GGG], GGG -> [GAG, GGA].
C1_AsStated ==
  pc = "done" =>
    /\ GroupedSuffixes
    /\ Patterns = listKmer => sorted_adj_list = scenarioListKmer

\* C1, amended: the mapping DeBruijn(Patterns) returns is the grouping of
\* the suffixes by prefix, and for listKmer it is AGG -> [GGG],
\* CAG -> [AGG, AGG], GAG -> [AGG], GGA -> [GAG], GGG -> [GGA, GGG].
C1_ResultIsGroupedSuffixes ==
  pc = "done" =>
    /\ GroupedSuffixes
    /\ Patterns = listKmer => sorted_adj_list = amendedListKmer

C1_Witness ==
  /\ pc = "done"
  /\ Patterns = listKmer
  /\ Len(sorted_adj_list) = 5

(* ------------------------------ C2 ------------------------------------- *)
\* C2 (P1): the value lists of the returned mapping have Len(Patterns)
\* entries in total.
C2_EdgeCount == pc = "done" => SumLens(sorted_adj_list) = Len(Patterns)

C2_Witness ==
  /\ pc = "done"
  /\ Len(Patterns) >= 3
  /\ Patterns[1] = Patterns[2]
  /\ Len(sorted_adj_list) >= 2
  /\ SumLens(sorted_adj_list) >= 3

(* ------------------------------ C3 ------------------------------------- *)
\* C3 (P2): DeBruijn of every permutation of Patterns is the mapping
\* returned for Patterns, keys in the same order and the same value lists.
C3_OrderIndependent ==
  pc = "done" =>
    \A f \in Permutations(DOMAIN Patterns) :
      DeBruijn([j \in DOMAIN Patterns |-> Patterns[f[j]]]) = sorted_adj_list

C3_Witness ==
  /\ pc = "done"
  /\ Len(adj_list) >= 2
  /\ KeysOf(adj_list) = KeysOf(sorted_adj_list)
  /\ adj_list[1][1] # sorted_adj_list[1][1]
  /\ \E e \in DOMAIN adj_list :
       Len(adj_list[e][2]) >= 2 /\ adj_list[e][2] # ListAt(sorted_adj_list, adj_list[e][1])

(* ------------------------------ C4 ------------------------------------- *)
\* C4 (P3): the keys of the returned mapping, in iteration order, are
\* strictly increasing and every value list is non-decreasing.
C4_Sorted ==
  pc = "done" =>
    /\ KeysIncreasing(sorted_adj_list)
    /\ \A e \in DOMAIN sorted_adj_list : NonDecreasing(sorted_adj_list[e][2])

C4_Witness ==
  /\ pc = "done"
  /\ ~KeysIncreasing(adj_list)
  /\ \E e \in DOMAIN adj_list : ~NonDecreasing(adj_list[e][2])
  /\ Len(sorted_adj_list) >= 2

(* ------------------------------ C5 ------------------------------------- *)
\* C5 (P4), as stated: a k-mer occurring m times in Patterns has its suffix
\* exactly m times in the value list of its prefix.
C5_AsStated ==
  pc = "done" =>
    \A j \in DOMAIN Patterns :
      Count(ListAt(sorted_adj_list, MinusLast(Patterns[j])), MinusFirst(Patterns[j]))
        = Count(Patterns, Patterns[j])

\* C5 (P4), amended: a k-mer of length at least 2 occurring m times in
\* Patterns has its suffix exactly m times in the value list of its prefix;
\* a k-mer of length 0 or 1 has its suffix, the empty string, once per
\* k-mer of length 0 or 1 in Patterns, which is at least m times.
C5_DuplicatesPreserved ==
  pc = "done" =>
    \A j \in DOMAIN Patterns :
      LET n == Count(ListAt(sorted_adj_list, MinusLast(Patterns[j])),
                     MinusFirst(Patterns[j]))
      IN  /\ Len(Patterns[j]) >= 2 => n = Count(Patterns, Patterns[j])
          /\ Len(Patterns[j]) <= 1 =>
               /\ n = Cardinality({x \in DOMAIN Patterns : Len(Patterns[x]) <= 1})
               /\ n >= Count(Patterns, Patterns[j])

C5_Witness ==
  /\ pc = "done"
  /\ \E a, b, c \in DOMAIN Patterns :
       /\ a # b
       /\ Patterns[a] = Patterns[b]
       /\ Len(Patterns[a]) >= 2
       /\ Patterns[c] # Patterns[a]
       /\ MinusLast(Patterns[c]) = MinusLast(Patterns[a])
       /\ Count(ListAt(sorted_adj_list, MinusLast(Patterns[a])), MinusFirst(Patterns[a])) = 2

(* ------------------------------ C6 ------------------------------------- *)
\* C6: the sequence CompositionGraph(Patterns) returns is as long as
\* Patterns and its j-th element is the pair (Patterns[j] minus its last
\* symbol, Patterns[j] minus its first symbol).
C6_CompositionGraph ==
  pc # "compose" =>
    /\ Len(edges) = Len(Patterns)
    /\ \A j \in DOMAIN Patterns :
         edges[j] = <<MinusLast(Patterns[j]), MinusFirst(Patterns[j])>>

C6_Witness ==
  /\ pc = "group"
  /\ i = 0
  /\ Len(edges) >= 3
  /\ edges[1] # edges[2]
  /\ edges[1][1] # edges[1][2]
  /\ \E j \in DOMAIN Patterns : Len(Patterns[j]) >= 2

(* ------------------------------ C7 ------------------------------------- *)
\* C7 (P5): on the empty sequence CompositionGraph returns the empty
\* sequence and DeBruijn runs to its return, without an error, and returns
\* the empty mapping.
C7_EmptyInput ==
  Patterns = <<>> =>
    /\ Runs
    /\ pc # "compose" => edges = <<>>
    /\ pc = "group" => adj_list = <<>>
    /\ pc = "done" => sorted_adj_list = <<>>

C7_Witness == Patterns = <<>> /\ pc = "done" /\ i = 0

(* ------------------------------ C8 ------------------------------------- *)
DegenerateEdges ==
  pc # "compose" =>
    \A j \in DOMAIN Patterns :
      Len(Patterns[j]) <= 1 => j \in DOMAIN edges /\ edges[j] = << <<>>, <<>> >>

SingleDegenerateNode ==
  sorted_adj_list = << << <<>>, [j \in DOMAIN Patterns |-> <<>>] >> >>

\* C8, as stated: a k-mer of length 0 or 1 yields the edge ("", "") without
\* an error, and DeBruijn on n k-mers all of length at most 1 returns the
\* mapping with the single key "" whose list is n copies of "".
C8_AsStated ==
  /\ DegenerateEdges
  /\ AllDegenerate => Runs
  /\ (pc = "done" /\ AllDegenerate) => SingleDegenerateNode

\* C8, amended: the same, for n >= 1 (for n = 0 the mapping has no key).
C8_DegenerateKmers ==
  /\ DegenerateEdges
  /\ AllDegenerate => Runs
  /\ (pc = "done" /\ AllDegenerate /\ Len(Patterns) >= 1) => SingleDegenerateNode
  /\ (pc = "done" /\ Len(Patterns) = 0) => sorted_adj_list = <<>>

C8_Witness ==
  /\ pc = "done"
  /\ AllDegenerate
  /\ Len(Patterns) >= 3
  /\ \E a, b, c \in DOMAIN Patterns :
       /\ Len(Patterns[a]) = 0
       /\ Len(Patterns[b]) = 1
       /\ Len(Patterns[c]) = 1
       /\ Patterns[b] # Patterns[c]
  /\ Len(sorted_adj_list) = 1

(* ------------------------------ C9 ------------------------------------- *)
\* C9: on k-mers of different lengths DeBruijn runs to its return without
\* an error; the mapping has every prefix as a key, keys are distinct as
\* strings, prefixes of different lengths are different keys, every k-mer's
\* suffix is in the list of its prefix, and edge count and sortedness hold.
C9_MixedLengths ==
  MixedLengths =>
    /\ Runs
    /\ pc = "done" =>
         /\ \A j \in DOMAIN Patterns :
              \E e \in DOMAIN sorted_adj_list :
                /\ sorted_adj_list[e][1] = MinusLast(Patterns[j])
                /\ \E x \in DOMAIN sorted_adj_list[e][2] :
                     sorted_adj_list[e][2][x] = MinusFirst(Patterns[j])
         /\ \A a, b \in DOMAIN sorted_adj_list :
              a # b => sorted_adj_list[a][1] # sorted_adj_list[b][1]
         /\ \A a, b \in DOMAIN Patterns :
              Len(MinusLast(Patterns[a])) # Len(MinusLast(Patterns[b])) =>
                \E ea, eb \in DOMAIN sorted_adj_list :
                  /\ ea # eb
                  /\ sorted_adj_list[ea][1] = MinusLast(Patterns[a])
                  /\ sorted_adj_list[eb][1] = MinusLast(Patterns[b])
         /\ Len(Patterns) = SumLens(sorted_adj_list)
         /\ \A a \in DOMAIN sorted_adj_list :
              /\ NonDecreasing(sorted_adj_list[a][2])
              /\ a > 1 => LexLess(sorted_adj_list[a - 1][1], sorted_adj_list[a][1])

C9_Witness ==
  /\ pc = "done"
  /\ MixedLengths
  /\ \E a, b \in DOMAIN Patterns :
       /\ Len(Patterns[a]) = 2
       /\ Len(Patterns[b]) = 1
       /\ Patterns[b] = MinusLast(Patterns[a])
  /\ \E ea, eb \in DOMAIN sorted_adj_list :
       Len(sorted_adj_list[ea][1]) = 0 /\ Len(sorted_adj_list[eb][1]) = 1

(* ------------------------------ C10 ------------------------------------ *)
\* the suffixes of the first n edges whose prefix is k, in input order
RECURSIVE SuffixesInOrder(_, _)
SuffixesInOrder(n, k) ==
  IF n = 0 THEN <<>>
  ELSE IF edges[n][1] = k THEN Append(SuffixesInOrder(n - 1, k), edges[n][2])
  ELSE SuffixesInOrder(n - 1, k)

Accumulated ==
  pc = "group" =>
    /\ i \in 0..Len(edges)
    /\ KeysOf(adj_list) = {edges[j][1] : j \in 1..i}
    /\ Len(adj_list) = Cardinality({edges[j][1] : j \in 1..i})
    /\ SumLens(adj_list) = i
    /\ \A e \in DOMAIN adj_list :
         /\ adj_list[e][2] # <<>>
         /\ adj_list[e][2] = SuffixesInOrder(i, adj_list[e][1])

OnlyGrows ==
  (pc = "group" /\ i' = i + 1) =>
    /\ \A e \in DOMAIN adj_list :
         /\ e \in DOMAIN adj_list'
         /\ adj_list'[e][1] = adj_list[e][1]
         /\ \/ adj_list'[e][2] = adj_list[e][2]
            \/ adj_list'[e][2] = Append(adj_list[e][2], edges[i + 1][2])
    /\ IF edges[i + 1][1] \in KeysOf(adj_list)
         THEN Len(adj_list') = Len(adj_list)
         ELSE /\ Len(adj_list') = Len(adj_list) + 1
              /\ adj_list'[Len(adj_list')][1] = edges[i + 1][1]

\* C10: after i edges of the accumulation loop adj_list has the distinct
\* prefixes of those edges as keys, i list entries in all, no empty list,
\* and each list holds its prefix's suffixes in input order; a step keeps
\* every key, creates one only for a prefix not yet a key, and changes a
\* list only by appending at its end.
C10_Accumulation == []Accumulated /\ [][OnlyGrows]_vars

C10_Witness ==
  /\ pc = "group"
  /\ i = 3
  /\ Len(adj_list) = 2
  /\ \E e \in DOMAIN adj_list :
       Len(adj_list[e][2]) = 2 /\ LexLess(adj_list[e][2][2], adj_list[e][2][1])

====
